---- MODULE Spec2Model ----
(***************************************************************************)
(* Model of streamlit_app.py: the rule-based injury-risk engine            *)
(* (compute_injury_risk), the prevention agent (prevention_recommendation) *)
(* and the top-level script that applies both to the squad table, shows    *)
(* the table ordered by risk_pct and then the detail of a selected player. *)
(*                                                                         *)
(* acwr, fatigue_z, soreness_z, risk and risk_pct are Python floats and    *)
(* are modelled as such (binary64, see below), so that 0.25 + 0.8 * 0.15   *)
(* + 0.10 + 0.08 is 0.5499999999999999 here as it is in the program.       *)
(* high_speed_distance, accelerations and decelerations are integers.      *)
(***************************************************************************)
EXTENDS Integers, Sequences, FiniteSets, TLC

VARIABLES
    \* ---- the script (one run of streamlit_app.py) ----
    squad_df,                \* the squad table: a sequence of rows (records)
    match_congestion,        \* sidebar checkbox
    return_to_play_players,  \* sidebar multiselect: a set of player ids
    risks,                   \* the loop's list of risks
    recommendations,         \* the loop's list of recommendations
    displayed,               \* the table st.dataframe shows: row labels in display order
    selected_player,         \* st.selectbox's value (0 is None)
    player_row,              \* <<>> or <<the row of the detail view>>
    pc,                      \* position of the script
    \* ---- direct calls of the two functions ----
    call,                    \* the call being made: [fn, args]
    ret,                     \* <<>> before it returns, <<value>> after
    prev                     \* <<>> or <<[args, risk]>>: the call before an input was raised

scriptVars == <<squad_df, match_congestion, return_to_play_players, risks,
                recommendations, displayed, selected_player, player_row, pc>>
callVars == <<call, ret, prev>>
vars == <<squad_df, match_congestion, return_to_play_players, risks,
          recommendations, displayed, selected_player, player_row, pc,
          call, ret, prev>>

(***************************************************************************)
(* Binary floating point (IEEE 754 double, round to nearest, ties to       *)
(* even), which is what Python's float and pandas' float64 are.  A float   *)
(* is [neg, m, e]: value (-1)^neg * m * 2^e, with m a 53-bit natural kept  *)
(* as four 14-bit limbs, least significant first, 2^52 <= m < 2^53, and    *)
(* zero as m = 0, e = 0.  The values of the program stay far from          *)
(* overflow and from subnormals, which are not modelled.                   *)
(***************************************************************************)
Base == 2^14

RECURSIVE BigAddC(_, _, _)
BigAddC(a, b, c) ==
    IF a = <<>> /\ b = <<>>
    THEN IF c = 0 THEN <<>> ELSE <<c>>
    ELSE LET x == (IF a = <<>> THEN 0 ELSE Head(a))
                  + (IF b = <<>> THEN 0 ELSE Head(b)) + c
         IN  <<x % Base>> \o BigAddC(IF a = <<>> THEN <<>> ELSE Tail(a),
                                     IF b = <<>> THEN <<>> ELSE Tail(b),
                                     x \div Base)

BigAdd(a, b) == BigAddC(a, b, 0)

\* a * k + c, for a natural k < 2^16
RECURSIVE BigMulSmall(_, _, _)
BigMulSmall(a, k, c) ==
    IF a = <<>>
    THEN IF c = 0 THEN <<>> ELSE <<c % Base>> \o BigMulSmall(<<>>, k, c \div Base)
    ELSE LET x == Head(a) * k + c
         IN  <<x % Base>> \o BigMulSmall(Tail(a), k, x \div Base)

RECURSIVE BigMul(_, _)
BigMul(a, b) ==
    IF b = <<>> THEN <<>>
    ELSE BigAdd(BigMulSmall(a, Head(b), 0), <<0>> \o BigMul(a, Tail(b)))

\* [q, r]: quotient and remainder of a by d, for 0 < d < 2^16
RECURSIVE BigDivSmall(_, _)
BigDivSmall(a, d) ==
    IF a = <<>> THEN [q |-> <<>>, r |-> 0]
    ELSE LET hi == BigDivSmall(Tail(a), d)
             cur == hi.r * Base + Head(a)
         IN  [q |-> <<cur \div d>> \o hi.q, r |-> cur % d]

\* without the zero limbs at the top
RECURSIVE BigTrim(_)
BigTrim(a) ==
    IF a = <<>> THEN <<>>
    ELSE IF a[Len(a)] = 0 THEN BigTrim(SubSeq(a, 1, Len(a) - 1))
    ELSE a

BigIsZero(a) == \A i \in 1..Len(a) : a[i] = 0

RECURSIVE SmallBitLen(_)
SmallBitLen(n) == IF n = 0 THEN 0 ELSE 1 + SmallBitLen(n \div 2)

BigBitLen(a) ==
    LET t == BigTrim(a)
    IN  IF t = <<>> THEN 0 ELSE (Len(t) - 1) * 14 + SmallBitLen(t[Len(t)])

BigShiftLeft(a, n) ==
    [i \in 1..(n \div 14) |-> 0] \o BigMulSmall(a, 2^(n % 14), 0)

\* [q, sticky]: a \div 2^n, and whether a bit that was dropped was set
BigShiftRight(a, n) ==
    LET k == n \div 14
        low == SubSeq(a, 1, IF k < Len(a) THEN k ELSE Len(a))
        high == SubSeq(a, k + 1, Len(a))
        d == BigDivSmall(high, 2^(n % 14))
    IN  [q |-> d.q, sticky |-> (~BigIsZero(low)) \/ d.r # 0]

\* four limbs exactly
Limbs4(a) == [i \in 1..4 |-> IF i <= Len(a) THEN a[i] ELSE 0]

FZero == [neg |-> FALSE, m |-> <<0, 0, 0, 0>>, e |-> 0]

FIsZero(x) == x.m = <<0, 0, 0, 0>>

\* The float nearest to x * 2^e (a little more than that when sticky), ties to even
FRound(x, e, sticky, neg) ==
    LET len == BigBitLen(x)
    IN  IF len = 0 THEN FZero
        ELSE IF len <= 53
        THEN [neg |-> neg, m |-> Limbs4(BigTrim(BigShiftLeft(x, 53 - len))),
              e |-> e - (53 - len)]
        ELSE LET sh == len - 53
                 y == BigShiftRight(x, sh - 1)
                 h == BigDivSmall(y.q, 2)
                 up == h.r = 1 /\ (y.sticky \/ sticky \/ Head(h.q) % 2 = 1)
                 q == IF up THEN BigAdd(h.q, <<1>>) ELSE h.q
             IN  IF BigBitLen(q) = 54
                 THEN [neg |-> neg, m |-> Limbs4(BigTrim(BigShiftRight(q, 1).q)),
                       e |-> e + sh + 1]
                 ELSE [neg |-> neg, m |-> Limbs4(BigTrim(q)), e |-> e + sh]

\* float(n / d) for integers n and d, 0 < d <= 1000 or d = 1000000: what the
\* decimal literal or the CSV field with that value parses to
FloatOf(n, d) ==
    LET a == IF n < 0 THEN 0 - n ELSE n
        x == BigShiftLeft(<<a % Base, (a \div Base) % Base, a \div (Base * Base)>>, 84)
        d1 == BigDivSmall(x, IF d = 1000000 THEN 1000 ELSE d)
        d2 == IF d = 1000000 THEN BigDivSmall(d1.q, 1000) ELSE [q |-> d1.q, r |-> 0]
    IN  FRound(d2.q, -84, d1.r # 0 \/ d2.r # 0, n < 0)

\* x + y for x, y >= 0
FAdd(x, y) ==
    IF FIsZero(x) THEN y
    ELSE IF FIsZero(y) THEN x
    ELSE LET e0 == IF x.e <= y.e THEN x.e ELSE y.e
         IN  FRound(BigAdd(BigShiftLeft(x.m, x.e - e0), BigShiftLeft(y.m, y.e - e0)),
                    e0, FALSE, FALSE)

\* x * y for x, y >= 0
FMul(x, y) ==
    IF FIsZero(x) \/ FIsZero(y) THEN FZero
    ELSE FRound(BigMul(x.m, y.m), x.e + y.e, FALSE, FALSE)

\* x < y for x, y >= 0
FLessAbs(x, y) ==
    IF FIsZero(y) THEN FALSE
    ELSE IF FIsZero(x) THEN TRUE
    ELSE IF x.e # y.e THEN x.e < y.e
    ELSE IF x.m[4] # y.m[4] THEN x.m[4] < y.m[4]
    ELSE IF x.m[3] # y.m[3] THEN x.m[3] < y.m[3]
    ELSE IF x.m[2] # y.m[2] THEN x.m[2] < y.m[2]
    ELSE x.m[1] < y.m[1]

\* x < y
FLess(x, y) ==
    IF x.neg /\ ~FIsZero(x)
    THEN IF y.neg /\ ~FIsZero(y) THEN FLessAbs(y, x) ELSE TRUE
    ELSE IF y.neg /\ ~FIsZero(y) THEN FALSE ELSE FLessAbs(x, y)

FGreater(x, y) == FLess(y, x)
FGeq(x, y) == ~FLess(x, y)
FLeq(x, y) == ~FLess(y, x)

(***************************************************************************)
(* RISK ENGINE (lines 24-67)                                               *)
(***************************************************************************)
\* The float literals of the engine
Lit_1_6 == FloatOf(16, 10)
Lit_1_3 == FloatOf(13, 10)
Lit_0_8 == FloatOf(8, 10)
Lit_0_40 == FloatOf(40, 100)
Lit_0_25 == FloatOf(25, 100)
Lit_0_10 == FloatOf(10, 100)
Lit_0_12 == FloatOf(12, 100)
Lit_0_15 == FloatOf(15, 100)
Lit_0_20 == FloatOf(20, 100)
Lit_0_08 == FloatOf(8, 100)
Lit_1_25 == FloatOf(125, 100)
One == FloatOf(1, 1)

\* max(0, z)
Max0(z) == IF FGreater(z, FZero) THEN z ELSE FZero

\* min(risk, 1.0)
Min1(risk) == IF FLess(One, risk) THEN One ELSE risk

\* mutant: the top tier includes its boundary
add_acwr_ge(risk, acwr) ==
    IF FGeq(acwr, Lit_1_6) THEN FAdd(risk, Lit_0_40)
    ELSE IF FGreater(acwr, Lit_1_3) THEN FAdd(risk, Lit_0_25)
    ELSE IF FLess(acwr, Lit_0_8) THEN FAdd(risk, Lit_0_10)
    ELSE risk

\* # ACWR: if acwr > 1.6: risk += 0.40 / elif acwr > 1.3: risk += 0.25 /
\* elif acwr < 0.8: risk += 0.10
add_acwr(risk, acwr) ==
    IF FGreater(acwr, Lit_1_6) THEN FAdd(risk, Lit_0_40)
    ELSE IF FGreater(acwr, Lit_1_3) THEN FAdd(risk, Lit_0_25)
    ELSE IF FLess(acwr, Lit_0_8) THEN FAdd(risk, Lit_0_10)
    ELSE risk

\* # Wellness: risk += max(0, fatigue_z) * 0.12; risk += max(0, soreness_z) * 0.15
add_wellness(risk, fatigue_z, soreness_z) ==
    FAdd(FAdd(risk, FMul(Max0(fatigue_z), Lit_0_12)),
         FMul(Max0(soreness_z), Lit_0_15))

\* mutant: the accel/decel tiers are exchanged
add_running_exposure_swapped(risk, high_speed_distance, accelerations, decelerations) ==
    LET r == IF high_speed_distance > 1200 THEN FAdd(risk, Lit_0_20)
             ELSE IF high_speed_distance > 800 THEN FAdd(risk, Lit_0_10)
             ELSE risk
    IN  IF accelerations + decelerations > 140 THEN FAdd(r, Lit_0_08)
        ELSE IF accelerations + decelerations > 100 THEN FAdd(r, Lit_0_15)
        ELSE r

\* # Running exposure: the high-speed-distance tier, then the accel+decel tier
add_running_exposure(risk, high_speed_distance, accelerations, decelerations) ==
    LET r == IF high_speed_distance > 1200 THEN FAdd(risk, Lit_0_20)
             ELSE IF high_speed_distance > 800 THEN FAdd(risk, Lit_0_10)
             ELSE risk
    IN  IF accelerations + decelerations > 140 THEN FAdd(r, Lit_0_15)
        ELSE IF accelerations + decelerations > 100 THEN FAdd(r, Lit_0_08)
        ELSE r

\* # Match congestion: if match_congestion: risk += 0.15
add_match_congestion(risk, mc) == IF mc THEN FAdd(risk, Lit_0_15) ELSE risk

\* # Return-to-play protection: if return_to_play: risk *= 1.25
scale_return_to_play(risk, rtp) == IF rtp THEN FMul(risk, Lit_1_25) ELSE risk

\* mutant: the return-to-play multiplier is applied before the congestion addend
accumulated_risk_rtp_first(acwr, fatigue_z, soreness_z, high_speed_distance, accelerations, decelerations, mc, rtp) ==
    add_match_congestion(
        scale_return_to_play(
            add_running_exposure(
                add_wellness(add_acwr(FZero, acwr), fatigue_z, soreness_z),
                high_speed_distance, accelerations, decelerations),
            rtp),
        mc)

\* risk as it stands before `return min(risk, 1.0)` (lines 34-65): 0.0, then
\* the ACWR, wellness, running-exposure and congestion steps, then the multiplier
accumulated_risk(acwr, fatigue_z, soreness_z, high_speed_distance, accelerations, decelerations, mc, rtp) ==
    scale_return_to_play(
        add_match_congestion(
            add_running_exposure(
                add_wellness(add_acwr(FZero, acwr), fatigue_z, soreness_z),
                high_speed_distance, accelerations, decelerations),
            mc),
        rtp)

\* mutant: the clamp is missing
compute_injury_risk_noclamp(acwr, fatigue_z, soreness_z, high_speed_distance, accelerations, decelerations, mc, rtp) ==
    accumulated_risk(acwr, fatigue_z, soreness_z, high_speed_distance,
                     accelerations, decelerations, mc, rtp)

compute_injury_risk(acwr, fatigue_z, soreness_z, high_speed_distance, accelerations, decelerations, mc, rtp) ==
    Min1(accumulated_risk(acwr, fatigue_z, soreness_z, high_speed_distance,
                          accelerations, decelerations, mc, rtp))

(***************************************************************************)
(* PREVENTION AGENT (lines 72-80)                                          *)
(***************************************************************************)
HIGH == "HIGH RISK - Medical screening + reduce load 40%"
MODERATE == "MODERATE RISK - Modified training, limit HSR"
MONITOR == "MONITOR - Recovery emphasis"
LOW == "LOW RISK - Full training allowed"

Lit_0_75 == FloatOf(75, 100)
Lit_0_55 == FloatOf(55, 100)
Lit_0_35 == FloatOf(35, 100)

\* mutant: the bounds are exclusive
prevention_recommendation_strict(risk) ==
    IF FGreater(risk, Lit_0_75) THEN HIGH
    ELSE IF FGreater(risk, Lit_0_55) THEN MODERATE
    ELSE IF FGreater(risk, Lit_0_35) THEN MONITOR
    ELSE LOW

prevention_recommendation(risk) ==
    IF FGeq(risk, Lit_0_75) THEN HIGH
    ELSE IF FGeq(risk, Lit_0_55) THEN MODERATE
    ELSE IF FGeq(risk, Lit_0_35) THEN MONITOR
    ELSE LOW

(***************************************************************************)
(* Direct calls of the two functions, on inputs drawn from the sets below  *)
(* (tier boundaries, both sides of each, negative z-scores, the inputs of  *)
(* the documented examples, inputs that saturate the score and inputs      *)
(* whose decimal sum is 0.55, 0.75 or 1.0).                                *)
(***************************************************************************)
AcwrValues == { FloatOf(n, 100) : n \in {70, 80, 130, 140, 160, 170} }
FatigueValues == { FloatOf(n, 10) : n \in {-10, 0, 10, 25} }
SorenessValues == { FloatOf(n, 10) : n \in {-5, 0, 8, 20} }
DistanceValues == {800, 900, 1200, 1300}
AccelValues == {40, 60, 80}
DecelValues == {41, 60, 65}
RiskValues ==
    { FloatOf(n, 1000000) :
        n \in {-500000, -1, 0, 349999, 350000, 350001, 549999, 550000, 550001,
               749999, 750000, 750001, 800000, 1000000, 1000001, 1500000} }

ScoreArgs ==
    [acwr : AcwrValues, fatigue_z : FatigueValues, soreness_z : SorenessValues,
     high_speed_distance : DistanceValues, accelerations : AccelValues,
     decelerations : DecelValues, match_congestion : BOOLEAN,
     return_to_play : BOOLEAN]

\* compute_injury_risk applied to a record of its eight arguments
Score(a) ==
    compute_injury_risk(a.acwr, a.fatigue_z, a.soreness_z, a.high_speed_distance,
                        a.accelerations, a.decelerations, a.match_congestion,
                        a.return_to_play)

\* risk before the clamp, for a record of the eight arguments
Accumulated(a) ==
    accumulated_risk(a.acwr, a.fatigue_z, a.soreness_z, a.high_speed_distance,
                     a.accelerations, a.decelerations, a.match_congestion,
                     a.return_to_play)

ScriptIdle ==
    /\ squad_df = <<>>
    /\ match_congestion = FALSE
    /\ return_to_play_players = {}
    /\ risks = <<>>
    /\ recommendations = <<>>
    /\ displayed = <<>>
    /\ selected_player = 0
    /\ player_row = <<>>
    /\ pc = "idle"

InitScorer ==
    /\ ScriptIdle
    /\ \/ \E a \in ScoreArgs : call = [fn |-> "compute_injury_risk", args |-> a]
       \/ \E r \in RiskValues :
            call = [fn |-> "prevention_recommendation", args |-> [risk |-> r]]
    /\ ret = <<>>
    /\ prev = <<>>

CallComputeInjuryRisk ==
    /\ call.fn = "compute_injury_risk"
    /\ ret = <<>>
    /\ ret' = <<Score(call.args)>>
    /\ UNCHANGED <<call, prev>>
    /\ UNCHANGED scriptVars

CallPreventionRecommendation ==
    /\ call.fn = "prevention_recommendation"
    /\ ret = <<>>
    /\ ret' = <<prevention_recommendation(call.args.risk)>>
    /\ UNCHANGED <<call, prev>>
    /\ UNCHANGED scriptVars

\* The same call again with one input changed to a, all others as they were
\* (any second call is reached from the first in one such step).
Recompute(a) ==
    /\ call.fn = "compute_injury_risk"
    /\ ret # <<>>
    /\ prev = <<>>
    /\ prev' = <<[args |-> call.args, risk |-> ret[1]]>>
    /\ call' = [call EXCEPT !.args = a]
    /\ ret' = <<Score(a)>>
    /\ UNCHANGED scriptVars

RaiseFatigue ==
    /\ call.fn = "compute_injury_risk"
    /\ \E v \in FatigueValues :
        /\ FGreater(v, call.args.fatigue_z)
        /\ Recompute([call.args EXCEPT !.fatigue_z = v])

RaiseSoreness ==
    /\ call.fn = "compute_injury_risk"
    /\ \E v \in SorenessValues :
        /\ FGreater(v, call.args.soreness_z)
        /\ Recompute([call.args EXCEPT !.soreness_z = v])

RaiseHighSpeedDistance ==
    /\ call.fn = "compute_injury_risk"
    /\ \E v \in DistanceValues :
        /\ v > call.args.high_speed_distance
        /\ Recompute([call.args EXCEPT !.high_speed_distance = v])

RaiseAccelDecel ==
    /\ call.fn = "compute_injury_risk"
    /\ \E x \in AccelValues, y \in DecelValues :
        /\ x + y > call.args.accelerations + call.args.decelerations
        /\ Recompute([call.args EXCEPT !.accelerations = x, !.decelerations = y])

NextScorer ==
    \/ CallComputeInjuryRisk
    \/ CallPreventionRecommendation
    \/ RaiseFatigue
    \/ RaiseSoreness
    \/ RaiseHighSpeedDistance
    \/ RaiseAccelDecel

SpecScorer == InitScorer /\ [][NextScorer]_vars

(***************************************************************************)
(* The script (lines 85-193): one run over a squad table.                  *)
(***************************************************************************)

\* Largest squad of the model (N_PLAYERS, line 19, is 25; an uploaded CSV may
\* hold any number of rows, none included).
MaxSquad == 3

\* The options of the "Return-to-Play Players" multiselect (lines 91-94);
\* player i stands for "Player i".
PlayerOptions == 1..MaxSquad

\* The metrics a row may carry: the documented example (risk 0.42), an ACWR
\* spike with every other metric zero (0.25) and a row whose decimal sum is
\* 0.55 (0.5499999999999999 as floats; 0.875 with both flags).
RowMetrics ==
    { [acwr |-> FloatOf(115, 100), fatigue_z |-> FloatOf(10, 10),
       soreness_z |-> FloatOf(8, 10),
       high_speed_distance |-> 900, accelerations |-> 60, decelerations |-> 65],
      [acwr |-> FloatOf(140, 100), fatigue_z |-> FloatOf(0, 10),
       soreness_z |-> FloatOf(0, 10),
       high_speed_distance |-> 0, accelerations |-> 0, decelerations |-> 0],
      [acwr |-> FloatOf(140, 100), fatigue_z |-> FloatOf(-10, 10),
       soreness_z |-> FloatOf(8, 10),
       high_speed_distance |-> 900, accelerations |-> 60, decelerations |-> 41] }

InputColumns ==
    {"player", "acwr", "fatigue_z", "soreness_z", "high_speed_distance",
     "accelerations", "decelerations"}

\* squad_df as read or generated (lines 107-125): rows in input order
SquadTables ==
    UNION { { [i \in 1..n |-> [player |-> i] @@ m[i]] : m \in [1..n -> RowMetrics] }
            : n \in 0..MaxSquad }

Init ==
    /\ squad_df \in SquadTables
    /\ match_congestion \in BOOLEAN
    /\ return_to_play_players \in SUBSET PlayerOptions
    /\ risks = <<>>
    /\ recommendations = <<>>
    /\ displayed = <<>>
    /\ selected_player = 0
    /\ player_row = <<>>
    /\ pc = "loop"
    /\ call = [fn |-> "none", args |-> [risk |-> FZero]]
    /\ ret = <<>>
    /\ prev = <<>>

\* mutant: the flag is set for everyone as soon as anyone is selected
row_return_to_play_any(row, players) == players # {}

\* rtp = row["player"] in return_to_play_players (line 134)
row_return_to_play(row, players) == row.player \in players

\* One iteration of `for _, row in squad_df.iterrows()` (lines 133-148)
LoopBody ==
    /\ pc = "loop"
    /\ Len(risks) < Len(squad_df)
    /\ LET row == squad_df[Len(risks) + 1]
           rtp == row_return_to_play(row, return_to_play_players)
           risk == compute_injury_risk(row.acwr, row.fatigue_z, row.soreness_z,
                                       row.high_speed_distance, row.accelerations,
                                       row.decelerations, match_congestion, rtp)
       IN  /\ risks' = Append(risks, risk)
           /\ recommendations' = Append(recommendations, prevention_recommendation(risk))
    /\ UNCHANGED <<squad_df, match_congestion, return_to_play_players, displayed,
                   selected_player, player_row, pc>>
    /\ UNCHANGED callVars

Lit_100 == FloatOf(100, 1)

\* The loop is over; the three columns are attached (lines 150-152)
AssignColumns ==
    /\ pc = "loop"
    /\ Len(risks) = Len(squad_df)
    /\ squad_df' = [i \in 1..Len(squad_df) |->
                      squad_df[i] @@ [risk |-> risks[i],
                                      risk_pct |-> FMul(risks[i], Lit_100),
                                      status |-> recommendations[i]]]
    /\ pc' = "dashboard"
    /\ UNCHANGED <<match_congestion, return_to_play_players, risks, recommendations,
                   displayed, selected_player, player_row>>
    /\ UNCHANGED callVars

Lit_75 == FloatOf(75, 1)
Lit_55 == FloatOf(55, 1)
Lit_35 == FloatOf(35, 1)

\* risk_color (lines 159-167)
risk_color(val) ==
    IF FGeq(val, Lit_75) THEN "background-color:#ff4d4d"
    ELSE IF FGeq(val, Lit_55) THEN "background-color:#ffa500"
    ELSE IF FGeq(val, Lit_35) THEN "background-color:#fff3cd"
    ELSE "background-color:#d4edda"

\* The orders sort_values("risk_pct", ascending=False) may return: the row
\* labels 1..n, risk_pct never increasing. kind is left at its default,
\* "quicksort", which pandas documents as not stable, so the order of rows
\* with equal risk_pct is any.
SortValuesDescending(df) ==
    { p \in [1..Len(df) -> 1..Len(df)] :
        /\ \A a, b \in 1..Len(df) : a # b => p[a] # p[b]
        /\ \A a, b \in 1..Len(df) : a < b => FGeq(df[p[a]].risk_pct, df[p[b]].risk_pct) }

\* st.dataframe(squad_df[[player, risk_pct, status]].sort_values(...).style...) (lines 169-174)
SquadDashboard ==
    /\ pc = "dashboard"
    /\ \E p \in SortValuesDescending(squad_df) :
         displayed' = [k \in 1..Len(squad_df) |->
                         [label |-> p[k],
                          player |-> squad_df[p[k]].player,
                          risk_pct |-> squad_df[p[k]].risk_pct,
                          status |-> squad_df[p[k]].status,
                          style |-> risk_color(squad_df[p[k]].risk_pct)]]
    /\ pc' = "select"
    /\ UNCHANGED <<squad_df, match_congestion, return_to_play_players, risks,
                   recommendations, selected_player, player_row>>
    /\ UNCHANGED callVars

\* st.selectbox("Select Player", squad_df["player"]) (lines 181-184): one of the
\* options, or None (0) when there are no options
SelectPlayer ==
    /\ pc = "select"
    /\ IF Len(squad_df) = 0
         THEN selected_player' = 0
         ELSE \E i \in 1..Len(squad_df) : selected_player' = squad_df[i].player
    /\ pc' = "detail"
    /\ UNCHANGED <<squad_df, match_congestion, return_to_play_players, risks,
                   recommendations, displayed, player_row>>
    /\ UNCHANGED callVars

\* squad_df[squad_df.player == selected_player] (line 186)
SelectedRows == SelectSeq(squad_df, LAMBDA row : row.player = selected_player)

\* .iloc[0] finds a row; the metrics and the status are shown (lines 186-193)
PlayerDetail ==
    /\ pc = "detail"
    /\ Len(SelectedRows) > 0
    /\ player_row' = <<SelectedRows[1]>>
    /\ pc' = "done"
    /\ UNCHANGED <<squad_df, match_congestion, return_to_play_players, risks,
                   recommendations, displayed, selected_player>>
    /\ UNCHANGED callVars

\* .iloc[0] on no rows raises IndexError and the run stops (line 186)
PlayerDetailIndexError ==
    /\ pc = "detail"
    /\ Len(SelectedRows) = 0
    /\ pc' = "IndexError"
    /\ UNCHANGED <<squad_df, match_congestion, return_to_play_players, risks,
                   recommendations, displayed, selected_player, player_row>>
    /\ UNCHANGED callVars

Next ==
    \/ LoopBody
    \/ AssignColumns
    \/ SquadDashboard
    \/ SelectPlayer
    \/ PlayerDetail
    \/ PlayerDetailIndexError

Spec == Init /\ [][Next]_vars

(***************************************************************************)
(* Properties of the two functions, checked under SpecScorer               *)
(***************************************************************************)
Scored == call.fn = "compute_injury_risk" /\ ret # <<>>
Recommended == call.fn = "prevention_recommendation" /\ ret # <<>>

\* C1: for every input, negative z-scores and the case where every tier, the
\* congestion addend and the return-to-play multiplier fire included,
\* compute_injury_risk returns r with 0 <= r <= 1, and r = 1 whenever the
\* sum it accumulated is 1 or more.
C1_ScoreBounded ==
    Scored =>
        /\ FLeq(FZero, ret[1])
        /\ FLeq(ret[1], One)
        /\ (FGeq(Accumulated(call.args), One) => ret[1] = One)

\* every tier, the congestion addend and the multiplier fire
AllFire ==
    [acwr |-> FloatOf(170, 100), fatigue_z |-> FloatOf(25, 10),
     soreness_z |-> FloatOf(20, 10), high_speed_distance |-> 1300,
     accelerations |-> 80, decelerations |-> 65, match_congestion |-> TRUE,
     return_to_play |-> TRUE]

\* C1's case: everything fires, the sum (1.875) passes 1 and the result is 1.
C1_Witness ==
    /\ Scored
    /\ call.args = AllFire
    /\ FGreater(Accumulated(call.args), One)
    /\ ret = <<One>>

Lit_0_749999 == FloatOf(749999, 1000000)

\* C2: prevention_recommendation maps every risk to exactly one band by
\* inclusive lower bounds, high to low: >= 0.75 HIGH, [0.55, 0.75) MODERATE,
\* [0.35, 0.55) MONITOR, below 0.35 (below 0 too) LOW, above 1 HIGH;
\* 0.75 is HIGH and 0.749999 is MODERATE.
C2_BandsByInclusiveLowerBound ==
    Recommended =>
        LET r == call.args.risk
            b == ret[1]
        IN  /\ Cardinality({HIGH, MODERATE, MONITOR, LOW}) = 4
            /\ b \in {HIGH, MODERATE, MONITOR, LOW}
            /\ (FGeq(r, Lit_0_75) => b = HIGH)
            /\ (FGeq(r, Lit_0_55) /\ FLess(r, Lit_0_75) => b = MODERATE)
            /\ (FGeq(r, Lit_0_35) /\ FLess(r, Lit_0_55) => b = MONITOR)
            /\ (FLess(r, Lit_0_35) => b = LOW)
            /\ (FLess(r, FZero) => b = LOW)
            /\ (FGreater(r, One) => b = HIGH)
            /\ (r = Lit_0_75 => b = HIGH)
            /\ (r = Lit_0_749999 => b = MODERATE)

\* C2's case: the value just under the HIGH bound has been mapped.
C2_Witness ==
    /\ Recommended
    /\ call.args.risk = Lit_0_749999
    /\ ret = <<MODERATE>>

\* new differs from old in nothing but fatigue_z, soreness_z,
\* high_speed_distance or accelerations + decelerations, which is larger
RaisedOnly(old, new) ==
    /\ new.acwr = old.acwr
    /\ new.match_congestion = old.match_congestion
    /\ new.return_to_play = old.return_to_play
    /\ \/ /\ FGreater(new.fatigue_z, old.fatigue_z)
          /\ new = [old EXCEPT !.fatigue_z = new.fatigue_z]
       \/ /\ FGreater(new.soreness_z, old.soreness_z)
          /\ new = [old EXCEPT !.soreness_z = new.soreness_z]
       \/ /\ new.high_speed_distance > old.high_speed_distance
          /\ new = [old EXCEPT !.high_speed_distance = new.high_speed_distance]
       \/ /\ new.accelerations + new.decelerations
               > old.accelerations + old.decelerations
          /\ new = [old EXCEPT !.accelerations = new.accelerations,
                               !.decelerations = new.decelerations]

\* C5: compute_injury_risk never decreases when fatigue_z, soreness_z,
\* high_speed_distance or accelerations + decelerations alone is raised,
\* with match_congestion and return_to_play on or off, saturation included.
C5_Monotone ==
    (Scored /\ prev # <<>> /\ RaisedOnly(prev[1].args, call.args))
        => FGeq(ret[1], prev[1].risk)

\* C5's case: with both flags on, a raised input took the score from below 1
\* to the saturated 1.
C5_Witness ==
    /\ Scored
    /\ prev # <<>>
    /\ RaisedOnly(prev[1].args, call.args)
    /\ call.args.match_congestion
    /\ call.args.return_to_play
    /\ FLess(prev[1].risk, One)
    /\ ret = <<One>>

\* acwr > 1.6 and nothing else but the two flags
SpikeCongestedReturning ==
    [acwr |-> FloatOf(170, 100), fatigue_z |-> FloatOf(0, 10),
     soreness_z |-> FloatOf(0, 10), high_speed_distance |-> 800,
     accelerations |-> 40, decelerations |-> 41, match_congestion |-> TRUE,
     return_to_play |-> TRUE]

Lit_0_6875 == FloatOf(687500, 1000000)

\* C6: with return_to_play the whole sum, congestion addend included, is
\* multiplied by 1.25 before the clamp: score = min(1, 1.25 * the unclamped
\* sum without return_to_play); acwr > 1.6 alone (0.40) with congestion
\* (0.15) gives 0.6875.
C6_ReturnToPlayScalesTotal ==
    (Scored /\ call.args.return_to_play) =>
        /\ ret[1] = Min1(FMul(Accumulated([call.args EXCEPT !.return_to_play = FALSE]),
                              Lit_1_25))
        /\ (call.args = SpikeCongestedReturning => ret[1] = Lit_0_6875)

\* C6's case: the documented example has been scored.
C6_Witness ==
    /\ Scored
    /\ call.args = SpikeCongestedReturning
    /\ ret = <<Lit_0_6875>>

\* Nothing but ACWR contributes to the score of a
AcwrAlone(a) ==
    /\ FLeq(a.fatigue_z, FZero)
    /\ FLeq(a.soreness_z, FZero)
    /\ a.high_speed_distance <= 800
    /\ a.accelerations + a.decelerations <= 100
    /\ ~a.match_congestion
    /\ ~a.return_to_play

\* C10: the ACWR contribution is exactly one of four exclusive values by
\* strict comparisons: 0.40 when acwr > 1.6, 0.25 when 1.3 < acwr <= 1.6,
\* 0.10 when acwr < 0.8, 0 when 0.8 <= acwr <= 1.3; 1.6, 1.3 and 0.8
\* themselves get 0.25, 0 and 0.  (c is what the ACWR step adds to 0.0, and
\* the whole score when nothing else contributes.)
C10_AcwrTiers ==
    Scored =>
        LET a == call.args
            c == add_acwr(FZero, a.acwr)
        IN  /\ c \in {Lit_0_40, Lit_0_25, Lit_0_10, FZero}
            /\ (FGreater(a.acwr, Lit_1_6) => c = Lit_0_40)
            /\ (FGreater(a.acwr, Lit_1_3) /\ FLeq(a.acwr, Lit_1_6) => c = Lit_0_25)
            /\ (FLess(a.acwr, Lit_0_8) => c = Lit_0_10)
            /\ (FGeq(a.acwr, Lit_0_8) /\ FLeq(a.acwr, Lit_1_3) => c = FZero)
            /\ (a.acwr = Lit_1_6 => c = Lit_0_25)
            /\ (a.acwr = Lit_1_3 => c = FZero)
            /\ (a.acwr = Lit_0_8 => c = FZero)
            /\ (AcwrAlone(a) => ret[1] = c)

\* C10's case: acwr on the 1.6 boundary, alone, scored 0.25.
C10_Witness ==
    /\ Scored
    /\ call.args.acwr = Lit_1_6
    /\ AcwrAlone(call.args)
    /\ ret = <<Lit_0_25>>

(***************************************************************************)
(* Properties of the script, checked under Spec                            *)
(***************************************************************************)
ColumnsAssigned == pc \in {"dashboard", "select", "detail", "done", "IndexError"}
Shown == pc \in {"select", "detail", "done", "IndexError"}

\* acwr 1.15, fatigue 1.0, soreness 0.8, distance 900, 60 and 65
ExampleMetrics ==
    [acwr |-> FloatOf(115, 100), fatigue_z |-> FloatOf(10, 10),
     soreness_z |-> FloatOf(8, 10), high_speed_distance |-> 900,
     accelerations |-> 60, decelerations |-> 65]

\* acwr 1.4, every other metric zero
SpikeMetrics ==
    [acwr |-> FloatOf(140, 100), fatigue_z |-> FloatOf(0, 10),
     soreness_z |-> FloatOf(0, 10), high_speed_distance |-> 0,
     accelerations |-> 0, decelerations |-> 0]

HasMetrics(row, m) == \A f \in DOMAIN m : row[f] = m[f]
IsExampleRow(row) == HasMetrics(row, ExampleMetrics)
IsSpikeRow(row) == HasMetrics(row, SpikeMetrics)

FlagsOff(row) == ~match_congestion /\ row.player \notin return_to_play_players

Lit_0_42 == FloatOf(42, 100)

\* C3 as claimed: in the table ordered by risk_pct descending, athletes with
\* equal risk_pct keep their input order.
C3_StableRanking ==
    Shown =>
        \A a, b \in 1..Len(displayed) :
            (a < b /\ displayed[a].risk_pct = displayed[b].risk_pct)
                => displayed[a].label < displayed[b].label

\* C4 as claimed: every assessment carries a driver list, and the athlete
\* with acwr = 1.4 and every other metric zero gets risk 0.25, band LOW and
\* a driver list that holds "acute workload spike".
C4_DriverListCarried ==
    ColumnsAssigned =>
        \A i \in 1..Len(squad_df) :
            /\ "drivers" \in DOMAIN squad_df[i]
            /\ (IsSpikeRow(squad_df[i]) /\ FlagsOff(squad_df[i])) =>
                  /\ squad_df[i].risk = Lit_0_25
                  /\ squad_df[i].status = LOW
                  /\ \E k \in 1..Len(squad_df[i].drivers) :
                        squad_df[i].drivers[k] = "acute workload spike"

\* C7 as claimed: an empty athlete collection gives an empty result and no
\* error, in the aggregation and in the rest of the run.
C7_EmptySquadHandled ==
    squad_df = <<>> =>
        /\ risks = <<>>
        /\ recommendations = <<>>
        /\ displayed = <<>>
        /\ pc # "IndexError"

\* C8: for every athlete, in input order, risk is compute_injury_risk of the
\* athlete's own six metrics, the global congestion toggle and the athlete's
\* own membership in the return-to-play set; risk_pct is risk * 100 and
\* status is prevention_recommendation(risk).
C8_PerAthleteAssessment ==
    /\ Len(risks) = Len(recommendations)
    /\ Len(risks) <= Len(squad_df)
    /\ \A i \in 1..Len(risks) :
         LET row == squad_df[i]
         IN  /\ row.player = i
             /\ risks[i] = Score([acwr |-> row.acwr, fatigue_z |-> row.fatigue_z,
                                  soreness_z |-> row.soreness_z,
                                  high_speed_distance |-> row.high_speed_distance,
                                  accelerations |-> row.accelerations,
                                  decelerations |-> row.decelerations,
                                  match_congestion |-> match_congestion,
                                  return_to_play |-> (i \in return_to_play_players)])
             /\ recommendations[i] = prevention_recommendation(risks[i])
             /\ ColumnsAssigned =>
                  /\ row.risk = risks[i]
                  /\ row.risk_pct = FMul(risks[i], Lit_100)
                  /\ row.status = recommendations[i]
    /\ ColumnsAssigned => Len(risks) = Len(squad_df)

\* C8's case: two athletes with the same metrics, one of them returning to
\* play, have been assessed and differ.
C8_Witness ==
    /\ pc = "done"
    /\ \E i, j \in 1..Len(squad_df) :
        /\ i \in return_to_play_players
        /\ j \notin return_to_play_players
        /\ IsSpikeRow(squad_df[i])
        /\ IsSpikeRow(squad_df[j])
        /\ FGreater(squad_df[i].risk, squad_df[j].risk)

\* C9: the documented example (acwr 1.15, fatigue 1.0, soreness 0.8, distance
\* 900, 60 accelerations, 65 decelerations, no flags) scores 0.42 and is
\* recommended the MONITOR band.
C9_DocumentedExample ==
    \A i \in 1..Len(risks) :
        (IsExampleRow(squad_df[i]) /\ FlagsOff(squad_df[i])) =>
            /\ risks[i] = Lit_0_42
            /\ recommendations[i] = MONITOR

\* C9's case: the example athlete has been assessed.
C9_Witness ==
    \E i \in 1..Len(risks) :
        /\ IsExampleRow(squad_df[i])
        /\ FlagsOff(squad_df[i])
        /\ risks[i] = Lit_0_42
        /\ recommendations[i] = MONITOR

====
